---- MODULE Spec2Model ----
(***************************************************************************)
(* Nag Runner (src/nag_runner.py): a file-backed reminder tool.  One       *)
(* process runs at a time; it loads the configuration, then runs one       *)
(* entry by name, lists the entries, or sweeps the overdue entries and     *)
(* prompts for each.  The process blocks in input() and in call(); the     *)
(* wall clock advances independently.  RaceSpec puts two processes inside  *)
(* set_last_run on the same last-run file.                                 *)
(***************************************************************************)
EXTENDS Integers, Sequences, FiniteSets, TLC

(* ---- bounds ---- *)
\* the clock is counted in microsecond units, scaled down: UsPerSec units
\* make a second, SecPerDay seconds make a day
UsPerSec == 2
SecPerDay == 2
\* the last instant of the clock, and the largest interval a round trip is
\* read back against
MaxClock == 10
MaxInterval == 2
MaxPrompts == 3

UnitsPerDay == UsPerSec * SecPerDay

VARIABLES
  files,        \* the configuration files on disk: path -> [exists, content]
  history,      \* the last-run file: [exists, data], data: name -> timestamp
  now,          \* the wall clock, datetime.now()
  args,         \* the parsed command line of the running process
  config,       \* self.config, the loaded Entries
  pc,           \* "idle", "prompting" (in input()), "running" (in call()), "exited"
  exitCode,     \* exit status of the last process, -1 while none has ended
  stderr,       \* what the last process wrote when it died
  idx,          \* position of the entry being handled in self.config
  prompt,       \* the prompt on display
  promptsShown, \* how often the prompt of the current entry was printed
  response,     \* the line input() returned last
  printed,      \* the last line printed by an action method
  calls,        \* the commands this process passed to call(), in order
  status,       \* the value call() returned last (discarded by the program)
  listing,      \* the lines printed by list_entries_next_run
  racers        \* processes inside set_last_run on the same file: id -> [pc, name, last_run]

vars == <<files, history, now, args, config, pc, exitCode, stderr, idx, prompt,
          promptsShown, response, printed, calls, status, listing, racers>>

(* ---- the file system ---- *)
ExplicitPath == "/etc/nag.json"
ConfigDirPath == "~/.config/nag_runner.json"
DotfilePath == "~/.nag_runner.json"
Paths == {ExplicitPath, ConfigDirPath, DotfilePath}
NoPath == "None"
NoName == "None"

Absent == [exists |-> FALSE, content |-> <<>>]
File(c) == [exists |-> TRUE, content |-> c]

RecA == [name |-> "A", command |-> "cmdA", interval |-> 1]
RecA0 == [name |-> "A", command |-> "cmdA", interval |-> 0]
RecA2 == [name |-> "A", command |-> "cmdA2", interval |-> 2]
RecB == [name |-> "B", command |-> "cmdB", interval |-> 2]
RecNoInterval == [name |-> "B", command |-> "cmdB"]
RecExtra == [name |-> "B", command |-> "cmdB", interval |-> 2, note |-> "x"]

\* the contents of the three configuration locations the model starts from
FileSystems ==
  { [p \in Paths |-> IF p = ConfigDirPath THEN File(<<RecA, RecB>>)
                     ELSE IF p = DotfilePath THEN File(<<RecB>>) ELSE Absent],
    [p \in Paths |-> IF p = ConfigDirPath THEN File(<<>>)
                     ELSE IF p = DotfilePath THEN File(<<RecA0, RecB>>) ELSE Absent],
    [p \in Paths |-> IF p = ExplicitPath THEN File(<<RecA, RecA2>>)
                     ELSE IF p = DotfilePath THEN File(<<RecB>>) ELSE Absent],
    [p \in Paths |-> Absent],
    [p \in Paths |-> IF p = ConfigDirPath THEN File(<<RecA, RecNoInterval, RecB>>)
                     ELSE Absent],
    [p \in Paths |-> IF p = ExplicitPath THEN File(<<RecA, RecExtra>>)
                     ELSE IF p = ConfigDirPath THEN File(<<RecB, RecA0>>) ELSE Absent] }

Names == {"A", "B", "Z"}
Lines == {"Y", "y", "", "n", "N", "d", "?", "x"}
Statuses == {0, 1}

(* ---- pure functions ---- *)
Range(s) == {s[i] : i \in 1..Len(s)}

\* Entry = namedtuple("Entry", ["name", "command", "interval"])
EntryFields == {"name", "command", "interval"}
Entry(rec) == [name |-> rec.name, command |-> rec.command, interval |-> rec.interval]

\* load_json_file: the default when the path does not exist, else the content
load_json_file(file, default) == IF ~file.exists THEN default ELSE file.content

\* the list comprehension of load_config: Entry(**entry_data) raises TypeError
\* on the first record whose keys are not exactly the three fields
BadRecords(entries) == {i \in 1..Len(entries) : DOMAIN entries[i] # EntryFields}

\* load_config keeping the records that precede the first invalid one
RECURSIVE TryConfigFiles_valid_prefix(_, _, _)
TryConfigFiles_valid_prefix(fs, candidates, i) ==
  IF i > Len(candidates)
  THEN [kind |-> "missing", entries |-> <<>>]
  ELSE LET entries == load_json_file(fs[candidates[i]], <<>>)
           valid == IF BadRecords(entries) = {} THEN Len(entries)
                    ELSE (CHOOSE b \in BadRecords(entries) :
                            \A c \in BadRecords(entries) : b <= c) - 1
       IN IF entries # <<>>
          THEN IF valid = 0
               THEN [kind |-> "TypeError", entries |-> <<>>]
               ELSE [kind |-> "ok", entries |-> [k \in 1..valid |-> Entry(entries[k])]]
          ELSE TryConfigFiles_valid_prefix(fs, candidates, i + 1)

RECURSIVE TryConfigFiles(_, _, _)
TryConfigFiles(fs, candidates, i) ==
  IF i > Len(candidates)
  THEN [kind |-> "missing", entries |-> <<>>]
  ELSE LET entries == load_json_file(fs[candidates[i]], <<>>) IN
       IF entries # <<>>
       THEN IF BadRecords(entries) # {}
            THEN [kind |-> "TypeError", entries |-> <<>>]
            ELSE [kind |-> "ok", entries |-> [k \in 1..Len(entries) |-> Entry(entries[k])]]
       ELSE TryConfigFiles(fs, candidates, i + 1)

\* the default locations tried in the opposite order
possible_config_files_reversed(config_file) ==
  IF config_file # NoPath THEN <<config_file>> ELSE <<DotfilePath, ConfigDirPath>>

possible_config_files(config_file) ==
  IF config_file # NoPath THEN <<config_file>> ELSE <<ConfigDirPath, DotfilePath>>

load_config(fs, config_file) == TryConfigFiles(fs, possible_config_files(config_file), 1)

\* datetime.isoformat(): the fraction is left out when the microsecond is 0
isoformat(t) ==
  LET day == t \div UnitsPerDay
      sec == (t % UnitsPerDay) \div UsPerSec
      us  == t % UsPerSec
  IN IF us = 0 THEN <<day, sec>> ELSE <<day, sec, us>>

\* datetime.strptime(s, "%Y-%m-%dT%H:%M:%S.%f"): the fraction is required
strptime(s) ==
  IF Len(s) = 3
  THEN [ok |-> TRUE, t |-> s[1] * UnitsPerDay + s[2] * UsPerSec + s[3]]
  ELSE [ok |-> FALSE, t |-> 0]

\* get_days_since_last_run: None, the whole days elapsed, or ValueError
get_days_since_last_run(entry, hist, t) ==
  LET last_run_dict == load_json_file([exists |-> hist.exists, content |-> hist.data], <<>>) IN
  IF entry.name \notin DOMAIN last_run_dict
  THEN [kind |-> "None", days |-> 0]
  ELSE LET last_run_time == strptime(last_run_dict[entry.name]) IN
       IF ~last_run_time.ok
       THEN [kind |-> "ValueError", days |-> 0]
       ELSE [kind |-> "days", days |-> (t - last_run_time.t) \div UnitsPerDay]

\* get_days_to_next_run
get_days_to_next_run(entry, hist, t) ==
  LET days_since == get_days_since_last_run(entry, hist, t) IN
  IF days_since.kind = "ValueError" THEN days_since
  ELSE IF days_since.kind = "None" THEN [kind |-> "days", days |-> 0]
  ELSE [kind |-> "days", days |-> entry.interval - days_since.days]

\* get_entry_by_name falling back to the first entry when no name matches
get_entry_by_name_default_first(cfg, name) ==
  LET hits == {i \in 1..Len(cfg) : cfg[i].name = name} IN
  IF hits = {} THEN 1 ELSE CHOOSE i \in hits : \A j \in hits : i <= j

\* get_entry_by_name keeping the last match of the scan
get_entry_by_name_last(cfg, name) ==
  LET hits == {i \in 1..Len(cfg) : cfg[i].name = name} IN
  IF hits = {} THEN 0 ELSE CHOOSE i \in hits : \A j \in hits : i >= j

\* get_entry_by_name: index of the first entry with the name, 0 when none
get_entry_by_name(cfg, name) ==
  LET hits == {i \in 1..Len(cfg) : cfg[i].name = name} IN
  IF hits = {} THEN 0 ELSE CHOOSE i \in hits : \A j \in hits : i <= j

\* set_last_run starting from an empty dict instead of the file
last_run_updated_fresh(entry, hist, t) ==
  [n \in {entry.name} |-> isoformat(t)]

\* set_last_run, lines 102-103: the dict read from the file, with the name
\* mapped to the current time
last_run_updated(entry, hist, t) ==
  LET last_run == load_json_file([exists |-> hist.exists, content |-> hist.data], <<>>) IN
  [n \in DOMAIN last_run \cup {entry.name} |->
     IF n = entry.name THEN isoformat(t) ELSE last_run[n]]

\* a dump that keeps the names the file holds and the dict lacks
json_dump_merging(last_run, hist) ==
  [exists |-> TRUE,
   data |-> [n \in DOMAIN last_run \cup DOMAIN hist.data |->
               IF n \in DOMAIN last_run THEN last_run[n] ELSE hist.data[n]]]

\* set_last_run, lines 104-105: open(path, "w") and json.dump replace the
\* content of the file by the dict
json_dump(last_run, hist) == [exists |-> TRUE, data |-> last_run]

\* what set_last_run leaves in the last-run file
set_last_run(entry, hist, t) == json_dump(last_run_updated(entry, hist, t), hist)

\* the table with run_entry asking again
get_user_actions_run_asks_again ==
  << [responses |-> <<"Y", "y", "">>, method |-> "run_entry", ask_again |-> TRUE],
     [responses |-> <<"n", "N">>, method |-> "print_next_time_message", ask_again |-> FALSE],
     [responses |-> <<"d">>, method |-> "set_last_run", ask_again |-> FALSE],
     [responses |-> <<"?">>, method |-> "print_menu", ask_again |-> TRUE] >>

\* the table with d bound to run_entry
get_user_actions_d_runs ==
  << [responses |-> <<"Y", "y", "">>, method |-> "run_entry", ask_again |-> FALSE],
     [responses |-> <<"n", "N">>, method |-> "print_next_time_message", ask_again |-> FALSE],
     [responses |-> <<"d">>, method |-> "run_entry", ask_again |-> FALSE],
     [responses |-> <<"?">>, method |-> "print_menu", ask_again |-> TRUE] >>

\* the table with n bound to set_last_run
get_user_actions_n_marks ==
  << [responses |-> <<"Y", "y", "">>, method |-> "run_entry", ask_again |-> FALSE],
     [responses |-> <<"n", "N">>, method |-> "set_last_run", ask_again |-> FALSE],
     [responses |-> <<"d">>, method |-> "set_last_run", ask_again |-> FALSE],
     [responses |-> <<"?">>, method |-> "print_menu", ask_again |-> TRUE] >>

\* the table with the help row not asking again
get_user_actions_help_ends ==
  << [responses |-> <<"Y", "y", "">>, method |-> "run_entry", ask_again |-> FALSE],
     [responses |-> <<"n", "N">>, method |-> "print_next_time_message", ask_again |-> FALSE],
     [responses |-> <<"d">>, method |-> "set_last_run", ask_again |-> FALSE],
     [responses |-> <<"?">>, method |-> "print_menu", ask_again |-> FALSE] >>

\* get_user_actions: (responses, method, ask_again)
get_user_actions ==
  << [responses |-> <<"Y", "y", "">>, method |-> "run_entry", ask_again |-> FALSE],
     [responses |-> <<"n", "N">>, method |-> "print_next_time_message", ask_again |-> FALSE],
     [responses |-> <<"d">>, method |-> "set_last_run", ask_again |-> FALSE],
     [responses |-> <<"?">>, method |-> "print_menu", ask_again |-> TRUE] >>

choice_letters == [k \in 1..Len(get_user_actions) |-> get_user_actions[k].responses[1]]

NoPrompt == [kind |-> "none", name |-> "", days |-> 0, choices |-> <<>>]

\* the for loop of run_overdue_entries from entry i on, up to the first prompt
RECURSIVE SweepFrom(_, _, _, _)
SweepFrom(cfg, hist, t, i) ==
  IF i > Len(cfg)
  THEN [kind |-> "done", idx |-> i, prompt |-> NoPrompt]
  ELSE LET entry == cfg[i]
           days_since == get_days_since_last_run(entry, hist, t)
       IN IF days_since.kind = "ValueError"
          THEN [kind |-> "ValueError", idx |-> i, prompt |-> NoPrompt]
          ELSE IF days_since.kind = "days"
          THEN IF days_since.days < entry.interval
               THEN SweepFrom(cfg, hist, t, i + 1)
               ELSE [kind |-> "prompt", idx |-> i,
                     prompt |-> [kind |-> "since", name |-> entry.name,
                                 days |-> days_since.days, choices |-> choice_letters]]
          ELSE [kind |-> "prompt", idx |-> i,
                prompt |-> [kind |-> "never", name |-> entry.name,
                            days |-> 0, choices |-> choice_letters]]

Max(a, b) == IF a >= b THEN a ELSE b

\* list_entries_next_run: the lines printed, and whether a ValueError ended it
RECURSIVE ListFrom(_, _, _, _)
ListFrom(cfg, hist, t, i) ==
  IF i > Len(cfg)
  THEN [ok |-> TRUE, lines |-> <<>>]
  ELSE LET entry == cfg[i]
           to_next == get_days_to_next_run(entry, hist, t)
           days_since == get_days_since_last_run(entry, hist, t)
       IN IF to_next.kind = "ValueError"
          THEN [ok |-> FALSE, lines |-> <<>>]
          ELSE LET rest == ListFrom(cfg, hist, t, i + 1)
                   line == [name |-> entry.name,
                            next_run |-> Max(to_next.days, 0),
                            every |-> entry.interval,
                            never |-> days_since.kind = "None",
                            days_since |-> days_since.days]
               IN [ok |-> rest.ok, lines |-> <<line>> \o rest.lines]

(* ---- the interaction table ---- *)
\* the rows of get_user_actions whose responses contain the line read
Matches(r) == {k \in 1..Len(get_user_actions) : r \in Range(get_user_actions[k].responses)}

\* the method the for loop of the prompt calls for the line, "" when no row matches
MethodFor(r) ==
  IF Matches(r) = {} THEN "" ELSE get_user_actions[CHOOSE k \in Matches(r) : TRUE].method

\* keep_going starting False
keep_going_starts_false(r) ==
  IF Matches(r) = {} THEN FALSE ELSE get_user_actions[CHOOSE k \in Matches(r) : TRUE].ask_again

\* keep_going after the for loop over the actions: it starts True and only
\* a matching row assigns it
keep_going(r) ==
  IF Matches(r) = {} THEN TRUE ELSE get_user_actions[CHOOSE k \in Matches(r) : TRUE].ask_again

\* run_entry marking the entry only when the command succeeded
run_entry_returned_on_success(entry, hist, t, st) ==
  IF st = 0 THEN set_last_run(entry, hist, t) ELSE hist

\* run_entry after call() has returned: the return value is dropped and
\* set_last_run is called
run_entry_returned(entry, hist, t, st) == set_last_run(entry, hist, t)

(* ---- state ---- *)
NoResponse == "<none>"

Init ==
  /\ files \in FileSystems
  /\ history = [exists |-> FALSE, data |-> <<>>]
  /\ now = 1
  /\ args = [config_path |-> NoPath, name |-> NoName, list |-> FALSE]
  /\ config = <<>>
  /\ pc = "idle"
  /\ exitCode = -1
  /\ stderr = <<>>
  /\ idx = 0
  /\ prompt = NoPrompt
  /\ promptsShown = 0
  /\ response = NoResponse
  /\ printed = ""
  /\ calls = <<>>
  /\ status = -1
  /\ listing = <<>>
  /\ racers = <<>>

\* the process ends: sys.exit, an uncaught exception, or the end of main
Exit(code, message) ==
  /\ pc' = "exited"
  /\ exitCode' = code
  /\ stderr' = message

\* a fresh process: argparse, then NagRunner.__init__
Launch(cp, nm, ls) ==
  /\ pc \in {"idle", "exited"}
  /\ args' = [config_path |-> cp, name |-> nm, list |-> ls]
  /\ response' = NoResponse
  /\ printed' = ""
  /\ status' = -1
  /\ UNCHANGED <<files, now, racers>>

\* load_config failed: sys.exit(message) or the TypeError of Entry(**entry_data)
ConfigFailure(cp, loaded) ==
  /\ config' = <<>>
  /\ idx' = 0
  /\ prompt' = NoPrompt
  /\ promptsShown' = 0
  /\ calls' = <<>>
  /\ listing' = <<>>
  /\ UNCHANGED history
  /\ IF loaded.kind = "missing"
     THEN Exit(1, <<"No config file found at">> \o possible_config_files(cp))
     ELSE Exit(1, <<"Traceback", "TypeError">>)

\* the sweep deciding against the history as it was before the step
Resume_stale(cfg, hist, i) ==
  LET res == SweepFrom(cfg, history, now, i) IN
  /\ idx' = res.idx
  /\ prompt' = res.prompt
  /\ IF res.kind = "prompt"
     THEN /\ pc' = "prompting"
          /\ promptsShown' = 1
          /\ exitCode' = -1
          /\ stderr' = <<>>
     ELSE /\ promptsShown' = 0
          /\ IF res.kind = "done"
             THEN Exit(0, <<>>)
             ELSE Exit(1, <<"Traceback", "ValueError">>)

\* the sweep goes on from entry i: the next prompt, the end, or a ValueError
Resume(cfg, hist, i) ==
  LET res == SweepFrom(cfg, hist, now, i) IN
  /\ idx' = res.idx
  /\ prompt' = res.prompt
  /\ IF res.kind = "prompt"
     THEN /\ pc' = "prompting"
          /\ promptsShown' = 1
          /\ exitCode' = -1
          /\ stderr' = <<>>
     ELSE /\ promptsShown' = 0
          /\ IF res.kind = "done"
             THEN Exit(0, <<>>)
             ELSE Exit(1, <<"Traceback", "ValueError">>)

(* ---- actions ---- *)
\* main with --name: run_entry_by_name up to the call of the command
MainRunByName(cp, nm) ==
  /\ Launch(cp, nm, FALSE)
  /\ LET loaded == load_config(files, cp) IN
     IF loaded.kind # "ok"
     THEN ConfigFailure(cp, loaded)
     ELSE LET found == get_entry_by_name(loaded.entries, nm) IN
          /\ config' = loaded.entries
          /\ prompt' = NoPrompt
          /\ promptsShown' = 0
          /\ listing' = <<>>
          /\ UNCHANGED history
          /\ idx' = found
          /\ IF found = 0
             THEN /\ calls' = <<>>
                  /\ Exit(1, <<"Could not find entry with name", nm>>)
             ELSE /\ calls' = <<loaded.entries[found].command>>
                  /\ pc' = "running"
                  /\ exitCode' = -1
                  /\ stderr' = <<>>

\* main without the --list branch: the list flag falls through to the sweep
MainList_falls_to_sweep(cp) ==
  /\ Launch(cp, NoName, TRUE)
  /\ LET loaded == load_config(files, cp) IN
     IF loaded.kind # "ok"
     THEN ConfigFailure(cp, loaded)
     ELSE /\ config' = loaded.entries
          /\ calls' = <<>>
          /\ listing' = <<>>
          /\ UNCHANGED history
          /\ Resume(loaded.entries, history, 1)

\* main with --list: list_entries_next_run
MainList(cp) ==
  /\ Launch(cp, NoName, TRUE)
  /\ LET loaded == load_config(files, cp) IN
     IF loaded.kind # "ok"
     THEN ConfigFailure(cp, loaded)
     ELSE LET res == ListFrom(loaded.entries, history, now, 1) IN
          /\ config' = loaded.entries
          /\ idx' = 0
          /\ prompt' = NoPrompt
          /\ promptsShown' = 0
          /\ calls' = <<>>
          /\ listing' = res.lines
          /\ UNCHANGED history
          /\ IF res.ok THEN Exit(0, <<>>) ELSE Exit(1, <<"Traceback", "ValueError">>)

\* main without --name and --list: run_overdue_entries up to the first input()
MainSweep(cp) ==
  /\ Launch(cp, NoName, FALSE)
  /\ LET loaded == load_config(files, cp) IN
     IF loaded.kind # "ok"
     THEN ConfigFailure(cp, loaded)
     ELSE /\ config' = loaded.entries
          /\ calls' = <<>>
          /\ listing' = <<>>
          /\ UNCHANGED history
          /\ Resume(loaded.entries, history, 1)

\* input() returns the line r: the for loop over the actions, up to the next
\* input(), the call of the command, or the end of the sweep
Respond(r) ==
  /\ pc = "prompting"
  /\ keep_going(r) => promptsShown < MaxPrompts
  /\ response' = r
  /\ UNCHANGED <<files, now, args, config, status, listing, racers>>
  /\ LET entry == config[idx]
         method == MethodFor(r)
     IN IF method = "run_entry"
        THEN /\ calls' = Append(calls, entry.command)
             /\ pc' = "running"
             /\ UNCHANGED <<history, exitCode, stderr, idx, prompt, promptsShown, printed>>
        ELSE /\ UNCHANGED calls
             /\ history' = IF method = "set_last_run"
                           THEN set_last_run(entry, history, now) ELSE history
             /\ printed' = IF method = "print_next_time_message"
                           THEN "Ok, I'll nag you next time"
                           ELSE IF method = "print_menu"
                           THEN "Possible responses are:" ELSE printed
             /\ IF keep_going(r)
                THEN /\ promptsShown' = promptsShown + 1
                     /\ UNCHANGED <<pc, exitCode, stderr, idx, prompt>>
                ELSE Resume(config, history', idx + 1)

\* call() returns with exit status st: the rest of run_entry, then the rest
\* of run_entry_by_name or of the prompt loop
CommandReturns(st) ==
  /\ pc = "running"
  /\ status' = st
  /\ history' = run_entry_returned(config[idx], history, now, st)
  /\ UNCHANGED <<files, now, args, config, response, printed, calls, listing, racers>>
  /\ IF args.name # NoName
     THEN /\ Exit(0, <<>>)
          /\ UNCHANGED <<idx, prompt, promptsShown>>
     ELSE IF keep_going(response)
     THEN /\ pc' = "prompting"
          /\ promptsShown' = promptsShown + 1
          /\ UNCHANGED <<exitCode, stderr, idx, prompt>>
     ELSE Resume(config, history', idx + 1)

\* the wall clock advances
Tick ==
  /\ now < MaxClock
  /\ now' = now + 1
  /\ UNCHANGED <<files, history, args, config, pc, exitCode, stderr, idx, prompt,
                 promptsShown, response, printed, calls, status, listing, racers>>

Next ==
  \/ \E cp \in {NoPath, ExplicitPath}, nm \in Names : MainRunByName(cp, nm)
  \/ \E cp \in {NoPath, ExplicitPath} : MainList(cp)
  \/ \E cp \in {NoPath, ExplicitPath} : MainSweep(cp)
  \/ \E r \in Lines : Respond(r)
  \/ \E st \in Statuses : CommandReturns(st)
  \/ Tick

Spec == Init /\ [][Next]_vars

(* ---- two processes in set_last_run on the same file ---- *)
Procs == {1, 2}
RaceNames == {"A", "B"}

processVars == <<files, args, config, pc, exitCode, stderr, idx, prompt,
                 promptsShown, response, printed, calls, status, listing>>

\* each process has reached set_last_run(entry) for an entry of its own
RaceInit ==
  /\ files \in FileSystems
  /\ history = [exists |-> FALSE, data |-> <<>>]
  /\ now = 1
  /\ args = [config_path |-> NoPath, name |-> NoName, list |-> FALSE]
  /\ config = <<>>
  /\ pc = "idle"
  /\ exitCode = -1
  /\ stderr = <<>>
  /\ idx = 0
  /\ prompt = NoPrompt
  /\ promptsShown = 0
  /\ response = NoResponse
  /\ printed = ""
  /\ calls = <<>>
  /\ status = -1
  /\ listing = <<>>
  /\ racers \in [Procs -> [pc : {"read"}, name : RaceNames, last_run : {<<>>}]]

\* lines 101-103 of set_last_run in process p
RaceRead(p) ==
  /\ racers[p].pc = "read"
  /\ racers' = [racers EXCEPT ![p].pc = "write",
                              ![p].last_run = last_run_updated([name |-> racers[p].name],
                                                               history, now)]
  /\ UNCHANGED <<history, now, processVars>>

\* lines 104-105 of set_last_run in process p
RaceWrite(p) ==
  /\ racers[p].pc = "write"
  /\ history' = json_dump(racers[p].last_run, history)
  /\ racers' = [racers EXCEPT ![p].pc = "done"]
  /\ UNCHANGED <<now, processVars>>

\* the wall clock advances while the processes run
RaceTick ==
  /\ now < MaxClock
  /\ now' = now + 1
  /\ UNCHANGED <<history, racers, processVars>>

RaceNext ==
  \/ \E p \in Procs : RaceRead(p)
  \/ \E p \in Procs : RaceWrite(p)
  \/ RaceTick

RaceSpec == RaceInit /\ [][RaceNext]_vars

(* ---- vocabulary of the properties ---- *)
\* the instant an ISO-8601 timestamp denotes; a timestamp without a fraction
\* denotes the whole second
InstantOf(s) == s[1] * UnitsPerDay + s[2] * UsPerSec + (IF Len(s) = 3 THEN s[3] ELSE 0)

SecondOf(t) == t \div UsPerSec

\* due: never run, or the whole days since the recorded run reach the interval
DueAt(entry, hist, t) ==
  \/ entry.name \notin DOMAIN hist.data
  \/ (t - InstantOf(hist.data[entry.name])) \div UnitsPerDay >= entry.interval

\* h2 is h with the name mapped to the instant t and every other name as before
HistoryMarked(h, h2, name, t) ==
  /\ h2.exists
  /\ DOMAIN h2.data = DOMAIN h.data \cup {name}
  /\ InstantOf(h2.data[name]) = t
  /\ \A n \in DOMAIN h.data \ {name} : h2.data[n] = h.data[n]

SweepMode(a) == a.name = NoName /\ ~a.list
Garbage == Lines \ {"y", "Y", "", "n", "N", "d", "?"}

\* the step in which input() returns the line r
Answers(r) == pc = "prompting" /\ now' = now /\ response' = r
\* the step in which call() returns
Returns == pc = "running" /\ now' = now
\* the step in which a process is started
Launches == pc \in {"idle", "exited"} /\ now' = now

EvaluatedInStep ==
  IF SweepMode(args') /\ now' = now
  THEN {i \in 1..Len(config') :
          (IF pc \in {"idle", "exited"} THEN 0 ELSE idx) < i /\ i <= idx'}
  ELSE {}

\* C2: every entry the sweep evaluates is prompted if and only if it has no
\* history record or its whole days since the recorded run reach its interval
C2_PromptedIffDue ==
  [][\A i \in EvaluatedInStep :
        (pc' = "prompting" /\ idx' = i) <=> DueAt(config'[i], history', now')]_vars

(* ---- C3 ---- *)
\* C3: y, Y or the empty line invokes the command once, the history is
\* written only when the command has returned, with the time of the return,
\* and the sweep never comes back to the entry
C3_RunOnceThenMark ==
  [][/\ \A r \in {"y", "Y", ""} : Answers(r) =>
           /\ calls' = Append(calls, config[idx].command)
           /\ history' = history
           /\ pc' = "running"
           /\ idx' = idx
     /\ (Returns /\ SweepMode(args)) =>
           /\ calls' = calls
           /\ HistoryMarked(history, history', config[idx].name, now)
           /\ pc' # "running"
           /\ pc' = "prompting" => idx' > idx
     /\ (pc = "prompting" /\ pc' = "prompting") => idx' >= idx]_vars

C3_Witness ==
  /\ SweepMode(args)
  /\ response \in {"y", "Y", ""}
  /\ pc = "prompting"
  /\ idx = 2
  /\ calls = <<config[1].command>>
  /\ config[1].name \in DOMAIN history.data

(* ---- C4 ---- *)
\* C4: d marks the entry as the return of a run does (the name mapped to the
\* current time, the other names unchanged) and invokes no command
C4_ResetMarksWithoutCall ==
  [][/\ Answers("d") =>
           /\ HistoryMarked(history, history', config[idx].name, now)
           /\ calls' = calls
           /\ pc' # "running"
     /\ (Returns /\ SweepMode(args)) =>
           HistoryMarked(history, history', config[idx].name, now)]_vars

C4_Witness ==
  /\ SweepMode(args)
  /\ response = "d"
  /\ pc = "prompting"
  /\ idx = 2
  /\ calls = <<>>
  /\ InstantOf(history.data[config[1].name]) = now

(* ---- C5 ---- *)
\* C5: n or N changes no history, invokes no command, the sweep leaves the
\* entry, and a sweep evaluating the entry again would prompt for it
C5_DeferKeepsDue ==
  [][\A r \in {"n", "N"} : Answers(r) =>
        /\ history' = history
        /\ calls' = calls
        /\ pc' # "running"
        /\ idx' > idx
        /\ DueAt(config[idx], history', now')
        /\ LET again == SweepFrom(config, history', now', idx) IN
           again.kind = "prompt" /\ again.idx = idx]_vars

C5_Witness ==
  /\ SweepMode(args)
  /\ response \in {"n", "N"}
  /\ pc = "prompting"
  /\ idx = 2
  /\ calls = <<>>
  /\ config[1].name \notin DOMAIN history.data
  /\ printed = "Ok, I'll nag you next time"

(* ---- C6 ---- *)
\* C6: ? shows the prompt of the same entry again and changes neither the
\* history nor the commands invoked, however often it is given
C6_HelpReprompts ==
  [][Answers("?") =>
        /\ pc' = "prompting"
        /\ idx' = idx
        /\ prompt' = prompt
        /\ promptsShown' = promptsShown + 1
        /\ history' = history
        /\ calls' = calls]_vars

C6_Witness ==
  /\ pc = "prompting"
  /\ response = "?"
  /\ printed = "Possible responses are:"
  /\ promptsShown >= 3
  /\ calls = <<>>
  /\ ~history.exists

(* ---- C7 ---- *)
\* C7: run-by-name with a name no configured entry has ends with a non-zero
\* exit, executes no command and leaves the history file as it was
C7_UnknownNameFails ==
  [][(Launches /\ args'.name # NoName
        /\ \A i \in 1..Len(config') : config'[i].name # args'.name) =>
        /\ pc' = "exited"
        /\ exitCode' # 0
        /\ exitCode' # -1
        /\ config' # <<>> => stderr' = <<"Could not find entry with name", args'.name>>
        /\ calls' = <<>>
        /\ history' = history]_vars

C7_Witness ==
  /\ pc = "exited"
  /\ args.name = "Z"
  /\ config # <<>>
  /\ exitCode = 1
  /\ stderr = <<"Could not find entry with name", "Z">>
  /\ calls = <<>>
  /\ history.exists

(* ---- C8 ---- *)
\* the first position in configuration order with the name
FirstWithName(cfg, name) ==
  CHOOSE i \in 1..Len(cfg) : cfg[i].name = name /\ \A j \in 1..(i - 1) : cfg[j].name # name

\* C8: run-by-name with a configured name runs, once and without a prompt,
\* the command of the first entry with that name, due or not, and on return
\* maps the name to the current time
C8_RunByNameFirstMatch ==
  [][/\ (Launches /\ args'.name # NoName
           /\ \E i \in 1..Len(config') : config'[i].name = args'.name) =>
           /\ pc' = "running"
           /\ idx' = FirstWithName(config', args'.name)
           /\ calls' = <<config'[FirstWithName(config', args'.name)].command>>
           /\ prompt' = NoPrompt
           /\ promptsShown' = 0
           /\ history' = history
     /\ (Returns /\ args.name # NoName) =>
           /\ calls' = calls
           /\ HistoryMarked(history, history', args.name, now)
           /\ prompt' = NoPrompt
           /\ promptsShown' = 0
           /\ pc' = "exited"
           /\ exitCode' = 0]_vars

\* a run by name of an entry that is not due, with a second entry of the name
C8_Witness ==
  /\ pc = "running"
  /\ args.name = "A"
  /\ Len(config) = 2
  /\ config[1].name = "A"
  /\ config[2].name = "A"
  /\ config[1].command # config[2].command
  /\ calls = <<config[1].command>>
  /\ ~DueAt(config[1], history, now)

(* ---- C9 ---- *)
\* C9: a name that set_last_run has just mapped to the current instant reads
\* back as that instant (same second), with 0 whole days since the run, and
\* is not due for any positive interval
C9_RoundTrip ==
  \A n \in DOMAIN history.data :
    history.data[n] = isoformat(now) =>
      LET last == strptime(history.data[n]) IN
      /\ last.ok
      /\ SecondOf(last.t) = SecondOf(now)
      /\ \A i \in 1..MaxInterval :
           LET entry == [name |-> n, command |-> "cmd", interval |-> i] IN
           /\ get_days_since_last_run(entry, history, now) = [kind |-> "days", days |-> 0]
           /\ SweepFrom(<<entry>>, history, now, 1).kind = "done"

(* ---- C10 ---- *)
\* C10: when the command returns, the entry is marked run at the current
\* time whatever the exit status, in a sweep and in a run by name
C10_MarkedWhateverStatus ==
  [][Returns =>
        /\ status' \in Statuses
        /\ HistoryMarked(history, history', config[idx].name, now)]_vars

\* a command that failed, and its entry marked run by a process that exits 0
C10_Witness ==
  /\ pc = "exited"
  /\ args.name # NoName
  /\ status = 1
  /\ exitCode = 0
  /\ args.name \in DOMAIN history.data
  /\ InstantOf(history.data[args.name]) = now

(* ---- C11 ---- *)
\* C11: a process started in list mode ends without reading a line, without
\* invoking a command, and leaves the history file as it found it
C11_ListIsPureReporting ==
  [][(Launches /\ args'.list) =>
        /\ pc' = "exited"
        /\ response' = NoResponse
        /\ promptsShown' = 0
        /\ prompt' = NoPrompt
        /\ calls' = <<>>
        /\ history' = history]_vars

\* a listing of two entries, one run before and one never run
C11_Witness ==
  /\ pc = "exited"
  /\ args.list
  /\ exitCode = 0
  /\ Len(listing) = 2
  /\ ~listing[1].never
  /\ listing[2].never
  /\ history.exists
  /\ calls = <<>>

(* ---- C12 ---- *)
\* C12: the write of a process replaces the file by the dict the process
\* read earlier, so a name written by the other process in between is lost
C12_LastWriterWins ==
  [][\A p \in Procs : (racers[p].pc = "write" /\ racers'[p].pc = "done") =>
        /\ history'.exists
        /\ history'.data = racers[p].last_run
        /\ \A q \in Procs :
             racers[q].name \in DOMAIN history'.data <=>
               racers[q].name \in DOMAIN racers[p].last_run]_vars

\* both processes have finished, for different names, and the file holds one
C12_Witness ==
  /\ \A p \in Procs : racers[p].pc = "done"
  /\ racers[1].name # racers[2].name
  /\ Cardinality(DOMAIN history.data) = 1

(* ---- C13 ---- *)
\* a location that exists and yields a non-empty list
Qualifies(p) == files[p].exists /\ files[p].content # <<>>

\* the location the entries come from, NoPath when no candidate qualifies
Selected(cp) ==
  IF cp # NoPath
  THEN IF Qualifies(cp) THEN cp ELSE NoPath
  ELSE IF Qualifies(ConfigDirPath) THEN ConfigDirPath
  ELSE IF Qualifies(DotfilePath) THEN DotfilePath
  ELSE NoPath

WellFormed(rec) == DOMAIN rec = {"name", "command", "interval"}

\* C13: an explicit path is the only candidate, the defaults are tried
\* config directory first, dotfile second; the entries are those of the first
\* candidate that exists with a non-empty list, and without one the process
\* exits non-zero naming every candidate, before any prompt, command or write
C13_ConfigResolution ==
  [][Launches =>
        LET cp == args'.config_path
            sel == Selected(cp)
        IN /\ sel = NoPath =>
                /\ pc' = "exited"
                /\ exitCode' \notin {0, -1}
                /\ stderr' = <<"No config file found at">> \o
                               (IF cp # NoPath THEN <<cp>>
                                ELSE <<ConfigDirPath, DotfilePath>>)
                /\ config' = <<>>
                /\ promptsShown' = 0
                /\ calls' = <<>>
                /\ history' = history
           /\ (sel # NoPath /\ \A k \in 1..Len(files[sel].content) :
                                  WellFormed(files[sel].content[k])) =>
                /\ config' = files[sel].content
                /\ stderr' # <<"No config file found at">> \o
                               (IF cp # NoPath THEN <<cp>>
                                ELSE <<ConfigDirPath, DotfilePath>>)]_vars

\* the config directory and the dotfile both qualify and the sweep runs on
\* the entries of the config directory
C13_Witness ==
  /\ pc = "prompting"
  /\ args.config_path = NoPath
  /\ Qualifies(ConfigDirPath)
  /\ Qualifies(DotfilePath)
  /\ files[ConfigDirPath].content # files[DotfilePath].content
  /\ config = files[ConfigDirPath].content

(* ---- C14 ---- *)
LacksField(rec) == ~({"name", "command", "interval"} \subseteq DOMAIN rec)

\* C14: when a record of the selected configuration lacks name, command or
\* interval, the process ends with a non-zero exit in every mode, with no
\* prompt, no command and no history write, whatever valid records precede it
C14_MissingFieldFails ==
  [][(Launches /\ Selected(args'.config_path) # NoPath
        /\ \E k \in 1..Len(files[Selected(args'.config_path)].content) :
              LacksField(files[Selected(args'.config_path)].content[k])) =>
        /\ pc' = "exited"
        /\ exitCode' \notin {0, -1}
        /\ stderr' = <<"Traceback", "TypeError">>
        /\ config' = <<>>
        /\ prompt' = NoPrompt
        /\ promptsShown' = 0
        /\ calls' = <<>>
        /\ listing' = <<>>
        /\ history' = history]_vars

\* a sweep over a configuration whose second record lacks a field, with a
\* never-run valid entry before it
C14_Witness ==
  /\ pc = "exited"
  /\ SweepMode(args)
  /\ exitCode = 1
  /\ stderr = <<"Traceback", "TypeError">>
  /\ Selected(args.config_path) # NoPath
  /\ WellFormed(files[Selected(args.config_path)].content[1])
  /\ LacksField(files[Selected(args.config_path)].content[2])
  /\ files[Selected(args.config_path)].content[1].name \notin DOMAIN history.data
  /\ calls = <<>>

(* ---- C15 ---- *)
\* the Entry of a record, its unknown fields left out
Stripped(rec) == [name |-> rec.name, command |-> rec.command, interval |-> rec.interval]

\* C15: a configuration whose records all have name, command and interval
\* loads, unknown fields ignored: the entries are the records without them
C15_UnknownFieldsIgnored ==
  [][(Launches /\ Selected(args'.config_path) # NoPath
        /\ \A k \in 1..Len(files[Selected(args'.config_path)].content) :
              ~LacksField(files[Selected(args'.config_path)].content[k])) =>
        /\ stderr' # <<"Traceback", "TypeError">>
        /\ config' = [k \in 1..Len(files[Selected(args'.config_path)].content) |->
                        Stripped(files[Selected(args'.config_path)].content[k])]]_vars

(* ---- C16 ---- *)
\* C16: every change of the history maps one name to the current time and
\* keeps every other name with its timestamp, an absent file counting as the
\* empty mapping; the set of names in the history never shrinks
C16_HistoryOnlyGrows ==
  [][/\ DOMAIN history.data \subseteq DOMAIN history'.data
     /\ history.exists => history'.exists
     /\ ~history.exists => history.data = <<>>
     /\ history' # history =>
          \E n \in Names : HistoryMarked(history, history', n, now)]_vars

\* a second name was just added and the first kept its older timestamp
C16_Witness ==
  /\ DOMAIN history.data = {"A", "B"}
  /\ InstantOf(history.data["B"]) = now
  /\ InstantOf(history.data["A"]) < now

(* ---- C17 ---- *)
\* C17: the sweep prompts in configuration order, an entry is left only by
\* RUN, DEFER or RESET, the entries passed without a prompt are not due, and
\* the sweep ends after the last entry
C17_SweepInOrderToTheEnd ==
  [][/\ (pc = "prompting" /\ pc' = "prompting") => idx' >= idx
     /\ (pc = "prompting" /\ pc' = "running") =>
           response' \in {"y", "Y", ""} /\ idx' = idx
     /\ (pc = "prompting" /\ pc' # "running" /\ idx' # idx) =>
           response' \in {"n", "N", "d"}
     /\ (pc = "running" /\ SweepMode(args) /\ pc' = "prompting") => idx' > idx
     /\ \A i \in EvaluatedInStep :
           ~(pc' = "prompting" /\ idx' = i) => ~DueAt(config'[i], history', now')
     /\ (pc' = "exited" /\ SweepMode(args') /\ config' # <<>>) =>
           idx' = Len(config') + 1 /\ exitCode' = 0]_vars

(* ---- C18 ---- *)
\* C18: every timestamp in the history is accepted by the reader, and no
\* process dies in the ValueError of an unreadable timestamp
C18_HistoryParseable ==
  /\ \A n \in DOMAIN history.data : strptime(history.data[n]).ok
  /\ stderr # <<"Traceback", "ValueError">>

(* ---- C19 ---- *)
\* the entries the days-until-due value is read for
AnyEntry == [name : {"A", "B"}, command : {"cmd"}, interval : 0..MaxInterval]

\* C19: get_days_to_next_run is 0 for an entry never run and the interval
\* minus the whole days since the recorded run otherwise, and the sweep
\* prompts for the entry exactly when that value is at most 0
C19_DaysToNextRunAgrees ==
  \A entry \in AnyEntry :
    LET to_next == get_days_to_next_run(entry, history, now)
        decision == SweepFrom(<<entry>>, history, now, 1)
    IN /\ to_next.kind = "days"
       /\ entry.name \notin DOMAIN history.data => to_next.days = 0
       /\ entry.name \in DOMAIN history.data =>
            to_next.days = entry.interval -
                           (now - InstantOf(history.data[entry.name])) \div UnitsPerDay
       /\ decision.kind = "prompt" <=> to_next.days <= 0

(* ---- C20 ---- *)
\* the entry after the current one has the same name and a positive interval
NextIsTwin ==
  /\ pc \in {"prompting", "running"}
  /\ idx + 1 <= Len(config)
  /\ config[idx + 1].name = config[idx].name
  /\ config[idx].interval > 0
  /\ config[idx + 1].interval > 0

====
